---- MODULE Spec2Model ----
(***************************************************************************)
(* State machine of the SVM playground page (src/src/app/page.tsx): the    *)
(* React state of Home, its event handlers, and the asynchronous           *)
(* trainModel run (click part, timer part, commit).                        *)
(*                                                                         *)
(* Conventions.  A nullable value is None (null) or Some(v).  A JavaScript *)
(* number is a record [fin, v]: a finite integer v, or NaN (fin = FALSE).  *)
(* A displayed text (template string) is the sequence of its pieces.       *)
(***************************************************************************)
EXTENDS Integers, Sequences, FiniteSets, TLC

VARIABLES
    parsedRows,        \* page.tsx:66  rows of the loaded dataset
    columns,           \* page.tsx:67  header fields, in order
    labelColumn,       \* page.tsx:68  "" when none
    featureColumns,    \* page.tsx:69  ordered list of selected columns
    status,            \* page.tsx:70
    trainingAccuracy,  \* page.tsx:71  None or Some(<<correct, n>>) in lowest terms
    models,            \* page.tsx:72  None or Some(sequence of [label, svm])
    predictionInput,   \* page.tsx:73  column -> raw string
    prediction,        \* page.tsx:76  text
    trainingError,     \* page.tsx:77  None or Some(text)
    gamma,             \* page.tsx:78  None or Some(n)
    cost,              \* page.tsx:79
    kernel,            \* page.tsx:80
    timers,            \* setTimeout queue: closures of trainModel runs awaiting their timer
    trainedOn,         \* history: the configuration the committed model was computed from
    last,              \* history: the most recent handler step and the solver calls it made
    events,            \* number of user events handled so far
    probe              \* argument/result pair of a direct resolveKernelOptions call

vars == <<parsedRows, columns, labelColumn, featureColumns, status,
          trainingAccuracy, models, predictionInput, prediction, trainingError,
          gamma, cost, kernel, timers, trainedOn, last, events, probe>>

None == <<>>
Some(v) == <<v>>
IsSome(o) == o # None
Get(o) == o[1]

\* ------------------------------------------------------------------ bounds

\* Greatest number of trainModel runs whose timer has not fired yet.
MaxPending == 1
\* Greatest number of user events (clicks, edits, loads) in one behaviour.
MaxEvents == 4
\* Greatest feature dimension passed to a direct resolveKernelOptions call.
MaxDim == 4
\* Greatest |gamma| passed to a direct resolveKernelOptions call.
MaxGamma == 3

\* ------------------------------------------------------------------ numbers

NaN == [fin |-> FALSE, v |-> 0]
Fin(n) == [fin |-> TRUE, v |-> n]

\* JavaScript Number(string) over the strings the model uses: the empty string
\* converts to 0, a decimal literal to its value, any other text to NaN.
NumberOf(s) ==
    CASE s = ""   -> Fin(0)
      [] s = "0"  -> Fin(0)
      [] s = "1"  -> Fin(1)
      [] s = "2"  -> Fin(2)
      [] s = "-1" -> Fin(-1)
      [] OTHER    -> NaN

parseFeatureValue(value) ==
    LET parsed == NumberOf(value)
    IN  IF parsed.fin THEN parsed ELSE NaN

RECURSIVE Gcd(_, _)
Gcd(a, b) == IF b = 0 THEN a ELSE Gcd(b, a % b)

\* correct / n as a fraction in lowest terms (n >= 1).
Ratio(c, n) == LET g == Gcd(n, c) IN <<c \div g, n \div g>>

\* ------------------------------------------------------------------ texts

Txt(s) == IF s = "" THEN <<>> ELSE <<s>>

ErrMissingConfig == <<"Dataset, features, or label configuration missing.">>
ErrNonNumeric(column) == <<"Column \"", column, "\" contains non-numeric values.">>
ErrNoTrainingData == <<"No training data available.">>
ErrTwoLabels == <<"At least two unique labels are required.">>
ErrNoFeature == <<"Select at least one feature column.">>
ErrCsvParse == <<"CSV parsing error: ", "Too few fields">>
ErrNoRows == <<"No rows or columns detected in dataset.">>
MsgTrainFirst == <<"Train a model before predicting.">>
MsgInputNumeric(column) == <<"Prediction input \"", column, "\" must be numeric.">>

\* ------------------------------------------------------------------ kernel

KernelKeys == {"LINEAR", "POLY", "RBF", "SIGMOID"}

KERNEL_MAP(k) ==
    CASE k = "LINEAR"  -> "linear"
      [] k = "POLY"    -> "polynomial"
      [] k = "RBF"     -> "rbf"
      [] k = "SIGMOID" -> "sigmoid"

\* A floating-point result: the rational num/den ("finite"), the square root
\* of the rational num/den ("sqrt"), Infinity or NaN.
Num(kind, num, den) == [kind |-> kind, num |-> num, den |-> den]
Rat(num, den) == LET g == Gcd(den, num) IN Num("finite", num \div g, den \div g)
JsInfinity == Num("Infinity", 0, 1)
JsNaN == Num("NaN", 0, 1)

Max(a, b) == IF a >= b THEN a ELSE b

\* Math.sqrt(1 / (2 * (num/den))) with den > 0: 1/0 is Infinity and its root
\* Infinity; the root of a negative number is NaN.
SigmaOf(num, den) ==
    IF num > 0 THEN LET g == Gcd(2 * num, den)
                    IN  Num("sqrt", den \div g, (2 * num) \div g)
    ELSE IF num = 0 THEN JsInfinity
    ELSE JsNaN

\* Faulty variant of resolveKernelOptions that takes 1 as the default gamma,
\* whatever the dimension.
resolveKernelOptionsNoDim(k, gammaValue, dimension) ==
    IF k = "RBF"
    THEN Some({<<"sigma", IF IsSome(gammaValue) THEN SigmaOf(Get(gammaValue), 1)
                          ELSE SigmaOf(1, 1)>>})
    ELSE IF k = "POLY"
    THEN Some({<<"degree", Rat(3, 1)>>, <<"constant", Rat(1, 1)>>,
               <<"multiplier", Rat(1, 1)>>})
    ELSE IF k = "SIGMOID"
    THEN Some({<<"constant", Rat(1, 1)>>, <<"multiplier", Rat(1, 1)>>})
    ELSE None

\* gammaValue ?? 1 / Math.max(1, dimension): only null takes the default.
resolveKernelOptions(k, gammaValue, dimension) ==
    IF k = "RBF"
    THEN LET effNum == IF IsSome(gammaValue) THEN Get(gammaValue) ELSE 1
             effDen == IF IsSome(gammaValue) THEN 1 ELSE Max(1, dimension)
         IN  Some({<<"sigma", SigmaOf(effNum, effDen)>>})
    ELSE IF k = "POLY"
    THEN Some({<<"degree", Rat(3, 1)>>, <<"constant", Rat(1, 1)>>,
               <<"multiplier", Rat(1, 1)>>})
    ELSE IF k = "SIGMOID"
    THEN Some({<<"constant", Rat(1, 1)>>, <<"multiplier", Rat(1, 1)>>})
    ELSE None

\* ------------------------------------------------------------------ datasets

Row3(a, b, y) == [a |-> a, b |-> b, y |-> y]
Row2(a, y) == [a |-> a, y |-> y]

\* Results of Papa.parse(csv, {header, skipEmptyLines}) for the CSV texts the
\* user can load: two labels, the first of them repeated, over two features;
\* three labels with an empty cell and an all-empty row; a non-numeric cell
\* in the second row; a single label; a parse error; a header with no data.
PapaResults ==
    { [errors |-> 0, fields |-> <<"a", "b", "y">>,
       data |-> <<Row3("1", "0", "Q"), Row3("0", "1", "P"), Row3("1", "1", "Q")>>],
      [errors |-> 0, fields |-> <<"a", "y">>,
       data |-> <<Row2("2", "R"), Row2("", ""), Row2("", "P"), Row2("1", "Q")>>],
      [errors |-> 0, fields |-> <<"a", "y">>,
       data |-> <<Row2("1", "1"), Row2("x", "Q")>>],
      [errors |-> 0, fields |-> <<"a", "y">>,
       data |-> <<Row2("1", "P"), Row2("2", "P")>>],
      [errors |-> 1, fields |-> <<"a", "y">>,
       data |-> <<Row2("1", "P")>>],
      [errors |-> 0, fields |-> <<"a", "y">>,
       data |-> <<Row2("", "")>>] }

\* current.filter((item) => item !== column)
RECURSIVE Without(_, _)
Without(seq, x) ==
    IF seq = <<>> THEN <<>>
    ELSE IF Head(seq) # x THEN <<Head(seq)>> \o Without(Tail(seq), x)
    ELSE Without(Tail(seq), x)

\* result.data.filter((row) => Object.values(row).some((value) => value !== ""))
RECURSIVE NonEmptyRows(_)
NonEmptyRows(data) ==
    IF data = <<>> THEN <<>>
    ELSE IF \E c \in DOMAIN Head(data) : Head(data)[c] # ""
    THEN <<Head(data)>> \o NonEmptyRows(Tail(data))
    ELSE NonEmptyRows(Tail(data))

Includes(seq, x) == \E i \in 1..Len(seq) : seq[i] = x

\* Object.fromEntries(cols.map((column) => [column, ""]))
BlankInput(cols) == [c \in {cols[i] : i \in 1..Len(cols)} |-> ""]

\* ------------------------------------------------------------------ feature extraction

Failure(text) == [ok |-> FALSE, error |-> text]

\* The cells of the selected feature columns that do not parse to a finite
\* number, as <<row index, column index>>.
BadCells(rows, fcols) ==
    { <<i, j>> \in (1..Len(rows)) \X (1..Len(fcols)) :
          ~parseFeatureValue(rows[i][fcols[j]]).fin }

\* The first such cell in the order the loops visit them: rows outermost.
FirstBadCell(rows, fcols) ==
    CHOOSE c \in BadCells(rows, fcols) :
        \A d \in BadCells(rows, fcols) :
            c[1] < d[1] \/ (c[1] = d[1] /\ c[2] <= d[2])

\* Faulty variant of computeFeaturesAndLabels that lets non-numeric cells through.
computeFeaturesAndLabelsUnchecked(rows, fcols, lcol) ==
    IF Len(rows) = 0 \/ Len(fcols) = 0 \/ lcol = ""
    THEN Failure(ErrMissingConfig)
    ELSE [ok |-> TRUE,
          features |-> [i \in 1..Len(rows) |->
                           [j \in 1..Len(fcols) |->
                               parseFeatureValue(rows[i][fcols[j]])]],
          labels |-> [i \in 1..Len(rows) |-> rows[i][lcol]]]

computeFeaturesAndLabels(rows, fcols, lcol) ==
    IF Len(rows) = 0 \/ Len(fcols) = 0 \/ lcol = ""
    THEN Failure(ErrMissingConfig)
    ELSE IF BadCells(rows, fcols) # {}
    THEN Failure(ErrNonNumeric(fcols[FirstBadCell(rows, fcols)[2]]))
    ELSE [ok |-> TRUE,
          features |-> [i \in 1..Len(rows) |->
                           [j \in 1..Len(fcols) |->
                               parseFeatureValue(rows[i][fcols[j]])]],
          labels |-> [i \in 1..Len(rows) |-> rows[i][lcol]]]

\* Array.from(new Set(labels)): the distinct labels in insertion order.
RECURSIVE UniqueFrom(_, _)
UniqueFrom(labels, seen) ==
    IF labels = <<>> THEN seen
    ELSE IF \E i \in 1..Len(seen) : seen[i] = Head(labels)
    THEN UniqueFrom(Tail(labels), seen)
    ELSE UniqueFrom(Tail(labels), Append(seen, Head(labels)))

Reverse(seq) == [i \in 1..Len(seq) |-> seq[Len(seq) + 1 - i]]

\* Faulty variant of UniqueLabels that orders the labels by their last occurrence.
UniqueLabelsLastSeen(labels) == Reverse(UniqueFrom(Reverse(labels), <<>>))

UniqueLabels(labels) == UniqueFrom(labels, <<>>)

\* ------------------------------------------------------------------ the solver (ml-svm)

TOL_DEN == 10000
MAX_PASSES == 10
MAX_ITERATIONS == 10000

\* What one svm.train call can do: throw, or leave the instance in one of
\* three trained conditions.  "fit" separates its training rows with margin
\* +2 / -2, "flat" scores every vector 0, "nan" has a non-finite margin
\* everywhere and only a decide code.
SvmKinds == {"fit", "flat", "nan"}
SolverOutcomes == SvmKinds \cup {"throw"}

\* new SVM({C, tol, maxPasses, maxIterations, kernel, kernelOptions})
NewSvm(c, kernelType, kernelOptions) ==
    [C |-> c, tol |-> Rat(1, TOL_DEN), maxPasses |-> MAX_PASSES,
     maxIterations |-> MAX_ITERATIONS, kernel |-> kernelType,
     kernelOptions |-> kernelOptions]

\* svm.train(features, binaryLabels) that does not throw.
Trained(options, X, Y, kind) ==
    [options |-> options, X |-> X, Y |-> Y, kind |-> kind]

OnSide(svm, vector, side) ==
    \E i \in 1..Len(svm.X) : svm.X[i] = vector /\ svm.Y[i] = side

marginOne(svm, vector) ==
    CASE svm.kind = "fit" ->
            IF OnSide(svm, vector, 1) THEN Fin(2)
            ELSE IF OnSide(svm, vector, -1) THEN Fin(-2)
            ELSE Fin(0)
      [] svm.kind = "flat" -> Fin(0)
      [] OTHER -> NaN

predictOne(svm, vector) ==
    CASE svm.kind = "fit" -> IF marginOne(svm, vector).v > 0 THEN 1 ELSE -1
      [] svm.kind = "flat" -> -1
      [] OTHER -> IF OnSide(svm, vector, 1) THEN 1 ELSE -1

\* ------------------------------------------------------------------ decision rule

\* Faulty variant of Score that scores a non-finite margin 0 instead of falling
\* back to the decide code.
ScoreZeroFallback(svm, vector) ==
    IF marginOne(svm, vector).fin THEN marginOne(svm, vector).v ELSE 0

\* Number.isFinite(margin) ? margin : model.svm.predictOne(vector)
Score(svm, vector) ==
    IF marginOne(svm, vector).fin THEN marginOne(svm, vector).v
    ELSE predictOne(svm, vector)

\* Faulty variant of the scan (BestFrom) that lets a later equal score win.
RECURSIVE BestFromLastWins(_, _, _, _, _)
BestFromLastWins(ms, vector, i, bestLabel, bestScore) ==
    IF i > Len(ms) THEN bestLabel
    ELSE IF bestScore = None \/ Score(ms[i].svm, vector) >= Get(bestScore)
    THEN BestFromLastWins(ms, vector, i + 1, ms[i].label,
                          Some(Score(ms[i].svm, vector)))
    ELSE BestFromLastWins(ms, vector, i + 1, bestLabel, bestScore)

\* The loop of page.tsx:292-301 from position i on; bestScore None is -Infinity.
RECURSIVE BestFrom(_, _, _, _, _)
BestFrom(ms, vector, i, bestLabel, bestScore) ==
    IF i > Len(ms) THEN bestLabel
    ELSE IF bestScore = None \/ Score(ms[i].svm, vector) > Get(bestScore)
    THEN BestFrom(ms, vector, i + 1, ms[i].label, Some(Score(ms[i].svm, vector)))
    ELSE BestFrom(ms, vector, i + 1, bestLabel, bestScore)

\* handlePredict's scan over the committed models.
PredictBest(ms, vector) == BestFrom(ms, vector, 1, "", None)

\* Faulty variant of TrainBestFrom that lets a later equal score win.
RECURSIVE TrainBestFromLastWins(_, _, _, _, _)
TrainBestFromLastWins(ms, vector, i, bestLabel, bestScore) ==
    IF i > Len(ms) THEN bestLabel
    ELSE LET margin == marginOne(ms[i].svm, vector)
             score == IF margin.fin THEN margin.v ELSE predictOne(ms[i].svm, vector)
         IN  IF bestScore = None \/ score >= Get(bestScore)
             THEN TrainBestFromLastWins(ms, vector, i + 1, ms[i].label, Some(score))
             ELSE TrainBestFromLastWins(ms, vector, i + 1, bestLabel, bestScore)

\* The loop of page.tsx:242-251, trainModel's own copy of the scan.
RECURSIVE TrainBestFrom(_, _, _, _, _)
TrainBestFrom(ms, vector, i, bestLabel, bestScore) ==
    IF i > Len(ms) THEN bestLabel
    ELSE LET margin == marginOne(ms[i].svm, vector)
             score == IF margin.fin THEN margin.v ELSE predictOne(ms[i].svm, vector)
         IN  IF bestScore = None \/ score > Get(bestScore)
             THEN TrainBestFrom(ms, vector, i + 1, ms[i].label, Some(score))
             ELSE TrainBestFrom(ms, vector, i + 1, bestLabel, bestScore)

\* predictions.reduce(...): the training rows whose prediction is their label.
Correct(ms, features, labels) ==
    Cardinality({ i \in 1..Len(features) :
                     TrainBestFrom(ms, features[i], 1, "", None) = labels[i] })

\* ------------------------------------------------------------------ trainModel

\* Faulty variant of BinaryLabels with the two class codes exchanged.
BinaryLabelsInverted(labels, targetLabel) ==
    [i \in 1..Len(labels) |-> IF labels[i] = targetLabel THEN -1 ELSE 1]

\* labels.map((value) => (value === targetLabel ? 1 : -1))
BinaryLabels(labels, targetLabel) ==
    [i \in 1..Len(labels) |-> IF labels[i] = targetLabel THEN 1 ELSE -1]

\* Faulty variant of TrainPrepare without the check for two distinct labels.
TrainPrepareNoLabelCheck(rows, fcols, lcol, k, g, c) ==
    LET fl == computeFeaturesAndLabels(rows, fcols, lcol)
    IN  IF ~fl.ok THEN fl
        ELSE IF Len(fl.features) = 0 THEN Failure(ErrNoTrainingData)
        ELSE IF Len(fl.features[1]) = 0 THEN Failure(ErrNoFeature)
        ELSE [ok |-> TRUE,
              features |-> fl.features,
              labels |-> fl.labels,
              uniqueLabels |-> UniqueLabels(fl.labels),
              svmOptions |-> NewSvm(c, KERNEL_MAP(k),
                                    resolveKernelOptions(k, g, Len(fl.features[1]))),
              config |-> [rows |-> rows, featureColumns |-> fcols,
                          labelColumn |-> lcol, kernel |-> k, gamma |-> g,
                          cost |-> c]]

\* The synchronous part of trainModel, up to the await (page.tsx:196-216),
\* over the state captured by the handler's closure: the error thrown, or
\* everything the timer callback and the code after the await will read.
TrainPrepare(rows, fcols, lcol, k, g, c) ==
    LET fl == computeFeaturesAndLabels(rows, fcols, lcol)
    IN  IF ~fl.ok THEN fl
        ELSE IF Len(fl.features) = 0 THEN Failure(ErrNoTrainingData)
        ELSE IF Len(UniqueLabels(fl.labels)) < 2 THEN Failure(ErrTwoLabels)
        ELSE IF Len(fl.features[1]) = 0 THEN Failure(ErrNoFeature)
        ELSE [ok |-> TRUE,
              features |-> fl.features,
              labels |-> fl.labels,
              uniqueLabels |-> UniqueLabels(fl.labels),
              svmOptions |-> NewSvm(c, KERNEL_MAP(k),
                                    resolveKernelOptions(k, g, Len(fl.features[1]))),
              config |-> [rows |-> rows, featureColumns |-> fcols,
                          labelColumn |-> lcol, kernel |-> k, gamma |-> g,
                          cost |-> c]]

\* The position of the first svm.train call that throws, 0 when none does.
FirstThrow(outcomes) ==
    IF \E i \in DOMAIN outcomes : outcomes[i] = "throw"
    THEN CHOOSE i \in DOMAIN outcomes :
             /\ outcomes[i] = "throw"
             /\ \A j \in DOMAIN outcomes : outcomes[j] = "throw" => i <= j
    ELSE 0

\* What the solver does over the loop of a run with n labels (page.tsx:220-234):
\* all n calls return, or a call throws and the loop makes no later call.
SolverRuns(n) ==
    { o \in UNION {[1..k -> SolverOutcomes] : k \in 1..n} :
        /\ \A i \in 1..(Len(o) - 1) : o[i] # "throw"
        /\ Len(o) < n => o[Len(o)] = "throw" }

\* The svm.train calls the timer callback makes (page.tsx:220-234): one per
\* distinct label in order, stopping with the first that throws.
SolverCalls(run, outcomes) ==
    LET n == IF FirstThrow(outcomes) = 0 THEN Len(run.uniqueLabels)
             ELSE FirstThrow(outcomes)
    IN  [i \in 1..n |-> [options |-> run.svmOptions, X |-> run.features,
                         Y |-> BinaryLabels(run.labels, run.uniqueLabels[i])]]

\* Faulty variant of TrainedModels that loses the classifier of the last label.
TrainedModelsButLast(run, outcomes) ==
    [i \in 1..(Len(run.uniqueLabels) - 1) |->
        [label |-> run.uniqueLabels[i],
         svm |-> Trained(run.svmOptions, run.features,
                         BinaryLabels(run.labels, run.uniqueLabels[i]),
                         outcomes[i])]]

\* trainedModels after a loop in which no call throws.
TrainedModels(run, outcomes) ==
    [i \in 1..Len(run.uniqueLabels) |->
        [label |-> run.uniqueLabels[i],
         svm |-> Trained(run.svmOptions, run.features,
                         BinaryLabels(run.labels, run.uniqueLabels[i]),
                         outcomes[i])]]

\* Faulty variant of Accuracy that divides by the number of classifiers.
AccuracyOverLabels(ms, features, labels) ==
    Ratio(Correct(ms, features, labels), Len(ms))

\* correct / predictions.length (page.tsx:255-261)
Accuracy(ms, features, labels) ==
    Ratio(Correct(ms, features, labels), Len(features))

\* ------------------------------------------------------------------ state machine

Step(op) == [op |-> op, calls |-> <<>>, threw |-> FALSE]

\* One more user event is handled.
UserEvent(op) ==
    /\ events < MaxEvents
    /\ events' = events + 1
    /\ last' = Step(op)

Init ==
    /\ parsedRows = <<>>
    /\ columns = <<>>
    /\ labelColumn = ""
    /\ featureColumns = <<>>
    /\ status = "Ready for dataset"
    /\ trainingAccuracy = None
    /\ models = None
    /\ predictionInput = BlankInput(<<>>)
    /\ prediction = <<>>
    /\ trainingError = None
    /\ gamma = None
    /\ cost = 1
    /\ kernel = "RBF"
    /\ timers = <<>>
    /\ trainedOn = None
    /\ last = Step("init")
    /\ events = 0
    /\ probe = None

\* Faulty variant of handleCSVContent whose failing paths also drop the model.
handleCSVContentDropsModel(result) ==
    LET rows == NonEmptyRows(result.data)
        detectedColumns == result.fields
        defaultLabel == detectedColumns[Len(detectedColumns)]
        initialFeatures == Without(detectedColumns, defaultLabel)
    IN  IF result.errors > 0 \/ Len(rows) = 0 \/ Len(detectedColumns) = 0
        THEN /\ trainingError' = Some(IF result.errors > 0 THEN ErrCsvParse
                                      ELSE ErrNoRows)
             /\ models' = None
             /\ trainedOn' = None
             /\ UNCHANGED <<parsedRows, columns, labelColumn, featureColumns, status,
                            trainingAccuracy, predictionInput, prediction>>
        ELSE /\ parsedRows' = rows
             /\ columns' = detectedColumns
             /\ labelColumn' = defaultLabel
             /\ featureColumns' = initialFeatures
             /\ trainingError' = None
             /\ predictionInput' = BlankInput(initialFeatures)
             /\ status' = "Dataset loaded"
             /\ trainingAccuracy' = None
             /\ models' = None
             /\ prediction' = <<>>
             /\ trainedOn' = None

\* handleCSVContent (page.tsx:90-130) on one parse result.
handleCSVContent(result) ==
    LET rows == NonEmptyRows(result.data)
        detectedColumns == result.fields
        defaultLabel == detectedColumns[Len(detectedColumns)]
        initialFeatures == Without(detectedColumns, defaultLabel)
    IN  IF result.errors > 0
        THEN /\ trainingError' = Some(ErrCsvParse)
             /\ UNCHANGED <<parsedRows, columns, labelColumn, featureColumns, status,
                            trainingAccuracy, models, predictionInput, prediction,
                            trainedOn>>
        ELSE IF Len(rows) = 0 \/ Len(detectedColumns) = 0
        THEN /\ trainingError' = Some(ErrNoRows)
             /\ UNCHANGED <<parsedRows, columns, labelColumn, featureColumns, status,
                            trainingAccuracy, models, predictionInput, prediction,
                            trainedOn>>
        ELSE /\ parsedRows' = rows
             /\ columns' = detectedColumns
             /\ labelColumn' = defaultLabel
             /\ featureColumns' = initialFeatures
             /\ trainingError' = None
             /\ predictionInput' = BlankInput(initialFeatures)
             /\ status' = "Dataset loaded"
             /\ trainingAccuracy' = None
             /\ models' = None
             /\ prediction' = <<>>
             /\ trainedOn' = None

LoadDataset ==
    /\ \E result \in PapaResults : handleCSVContent(result)
    /\ UserEvent("load")
    /\ UNCHANGED <<gamma, cost, kernel, timers, probe>>

\* The label select's onChange (page.tsx:372-387); the select is rendered once
\* columns exist and fires for a value other than the current one.
ChangeLabel ==
    /\ Len(columns) > 0
    /\ \E n \in 1..Len(columns) :
          LET nextLabel == columns[n]
              nextFeatures == Without(columns, nextLabel)
          IN  /\ nextLabel # labelColumn
              /\ labelColumn' = nextLabel
              /\ featureColumns' = nextFeatures
              /\ predictionInput' = BlankInput(nextFeatures)
    /\ trainingAccuracy' = None
    /\ models' = None
    /\ prediction' = <<>>
    /\ trainedOn' = None
    /\ UserEvent("label")
    /\ UNCHANGED <<parsedRows, columns, status, trainingError, gamma, cost, kernel,
                   timers, probe>>

\* Faulty variant of handleFeatureToggle that keeps the prediction input's key
\* of a column it deselects.
handleFeatureToggleKeepsKey(column) ==
    LET isSelected == Includes(featureColumns, column)
    IN  /\ featureColumns' = IF isSelected THEN Without(featureColumns, column)
                             ELSE Append(featureColumns, column)
        /\ predictionInput' =
              IF isSelected
              THEN predictionInput
              ELSE [c \in DOMAIN predictionInput \cup {column} |->
                       IF c = column THEN "" ELSE predictionInput[c]]
        /\ models' = None
        /\ trainingAccuracy' = None
        /\ prediction' = <<>>
        /\ trainedOn' = None

\* handleFeatureToggle (page.tsx:148-170); a button exists for every column
\* but the label column (page.tsx:403-410).
handleFeatureToggle(column) ==
    LET isSelected == Includes(featureColumns, column)
    IN  /\ featureColumns' = IF isSelected THEN Without(featureColumns, column)
                             ELSE Append(featureColumns, column)
        /\ predictionInput' =
              IF isSelected
              THEN [c \in DOMAIN predictionInput \ {column} |-> predictionInput[c]]
              ELSE [c \in DOMAIN predictionInput \cup {column} |->
                       IF c = column THEN "" ELSE predictionInput[c]]
        /\ models' = None
        /\ trainingAccuracy' = None
        /\ prediction' = <<>>
        /\ trainedOn' = None

ToggleFeature ==
    /\ \E n \in 1..Len(columns) :
          columns[n] # labelColumn /\ handleFeatureToggle(columns[n])
    /\ UserEvent("toggle")
    /\ UNCHANGED <<parsedRows, columns, labelColumn, status, trainingError, gamma,
                   cost, kernel, timers, probe>>

\* What the user can type into the cost, gamma and prediction inputs.
NumberRaws == {"", "0", "-1", "x", "2"}
InputRaws == {"", "1", "x"}

\* Faulty variant of Invalidate that leaves the prediction on screen.
InvalidateKeepsPrediction ==
    /\ trainingAccuracy' = None
    /\ models' = None
    /\ prediction' = prediction
    /\ trainedOn' = None

\* The invalidation every configuration handler ends with.
Invalidate ==
    /\ trainingAccuracy' = None
    /\ models' = None
    /\ prediction' = <<>>
    /\ trainedOn' = None

\* The kernel select's onChange (page.tsx:445-450).
ChangeKernel ==
    /\ \E k \in KernelKeys : k # kernel /\ kernel' = k
    /\ Invalidate
    /\ UserEvent("kernel")
    /\ UNCHANGED <<parsedRows, columns, labelColumn, featureColumns, status,
                   predictionInput, trainingError, gamma, cost, timers, probe>>

\* Faulty variant of ChangeCost that stores every finite entry.
ChangeCostUnchecked ==
    /\ \E raw \in NumberRaws :
          LET value == NumberOf(raw)
          IN  cost' = IF value.fin THEN value.v ELSE 1
    /\ Invalidate
    /\ UserEvent("cost")
    /\ UNCHANGED <<parsedRows, columns, labelColumn, featureColumns, status,
                   predictionInput, trainingError, gamma, kernel, timers, probe>>

\* The cost input's onChange (page.tsx:467-473).
ChangeCost ==
    /\ \E raw \in NumberRaws :
          LET value == NumberOf(raw)
          IN  cost' = IF value.fin /\ value.v > 0 THEN value.v ELSE 1
    /\ Invalidate
    /\ UserEvent("cost")
    /\ UNCHANGED <<parsedRows, columns, labelColumn, featureColumns, status,
                   predictionInput, trainingError, gamma, kernel, timers, probe>>

\* The gamma input's onChange (page.tsx:486-500).
ChangeGamma ==
    /\ \E raw \in NumberRaws :
          LET value == NumberOf(raw)
          IN  gamma' = IF raw = "" THEN None
                       ELSE IF value.fin /\ value.v > 0 THEN Some(value.v)
                       ELSE None
    /\ Invalidate
    /\ UserEvent("gamma")
    /\ UNCHANGED <<parsedRows, columns, labelColumn, featureColumns, status,
                   predictionInput, trainingError, cost, kernel, timers, probe>>

\* A prediction input's onChange (page.tsx:558-563); one input per feature column.
EditInput ==
    /\ \E n \in 1..Len(featureColumns), raw \in InputRaws :
          predictionInput' =
              [c \in DOMAIN predictionInput \cup {featureColumns[n]} |->
                  IF c = featureColumns[n] THEN raw ELSE predictionInput[c]]
    /\ UserEvent("input")
    /\ UNCHANGED <<parsedRows, columns, labelColumn, featureColumns, status,
                   trainingAccuracy, models, prediction, trainingError, gamma, cost,
                   kernel, timers, trainedOn, probe>>

\* The catch block of trainModel (page.tsx:265-271).
TrainCatch(text) ==
    /\ status' = "Training failed"
    /\ trainingError' = Some(text)
    /\ models' = None
    /\ trainedOn' = None

\* A click on the train button (enabled by page.tsx:508): trainModel runs to
\* its await, or throws into its catch block.
TrainClick ==
    /\ Len(featureColumns) > 0
    /\ labelColumn # ""
    /\ Len(timers) < MaxPending
    /\ LET run == TrainPrepare(parsedRows, featureColumns, labelColumn, kernel,
                               gamma, cost)
       IN  IF run.ok
           THEN /\ status' = "Training..."
                /\ timers' = Append(timers, run)
                /\ UNCHANGED <<trainingError, models, trainedOn>>
           ELSE /\ TrainCatch(run.error)
                /\ UNCHANGED timers
    /\ UserEvent("train")
    /\ UNCHANGED <<parsedRows, columns, labelColumn, featureColumns,
                   trainingAccuracy, predictionInput, prediction, gamma, cost,
                   kernel, probe>>

\* Faulty variant of TrainCommit that publishes the models without their accuracy.
TrainCommitKeepsAccuracy(run, trainedModels) ==
    /\ models' = Some(trainedModels)
    /\ UNCHANGED trainingAccuracy
    /\ status' = "Model trained"
    /\ prediction' = <<>>
    /\ trainingError' = None
    /\ trainedOn' = Some(run.config)

\* The code after the await (page.tsx:239-264) for the run's trained models.
TrainCommit(run, trainedModels) ==
    /\ models' = Some(trainedModels)
    /\ trainingAccuracy' = Some(Accuracy(trainedModels, run.features, run.labels))
    /\ status' = "Model trained"
    /\ prediction' = <<>>
    /\ trainingError' = None
    /\ trainedOn' = Some(run.config)

\* The timer callback of the oldest waiting run (page.tsx:219-236) and, when
\* it resolves the promise, the rest of trainModel in the following
\* microtask.  An exception of svm.train leaves the callback before
\* resolve(): the promise stays pending and no line of trainModel runs again.
TimerFire ==
    /\ timers # <<>>
    /\ \E outcomes \in SolverRuns(Len(Head(timers).uniqueLabels)) :
          LET run == Head(timers)
          IN  /\ last' = [op |-> "timer", calls |-> SolverCalls(run, outcomes),
                          threw |-> FirstThrow(outcomes) # 0]
              /\ IF FirstThrow(outcomes) = 0
                 THEN TrainCommit(run, TrainedModels(run, outcomes))
                 ELSE UNCHANGED <<models, trainingAccuracy, status, prediction,
                                  trainingError, trainedOn>>
    /\ timers' = Tail(timers)
    /\ UNCHANGED <<parsedRows, columns, labelColumn, featureColumns,
                   predictionInput, gamma, cost, kernel, events, probe>>

\* handlePredict (page.tsx:274-309): the text it puts into prediction.
handlePredict ==
    IF models = None \/ Len(Get(models)) = 0 \/ Len(featureColumns) = 0
    THEN MsgTrainFirst
    ELSE LET parsed == [j \in 1..Len(featureColumns) |->
                           IF featureColumns[j] \in DOMAIN predictionInput
                           THEN parseFeatureValue(predictionInput[featureColumns[j]])
                           ELSE NaN]
             bad == {j \in 1..Len(featureColumns) : ~parsed[j].fin}
         IN  IF bad # {}
             THEN MsgInputNumeric(featureColumns[CHOOSE j \in bad :
                                                    \A m \in bad : j <= m])
             ELSE Txt(PredictBest(Get(models), parsed))

\* Faulty variant of Predict that also clears the training error.
PredictClearsError ==
    /\ models # None
    /\ prediction' = handlePredict
    /\ trainingError' = None
    /\ UserEvent("predict")
    /\ UNCHANGED <<parsedRows, columns, labelColumn, featureColumns, status,
                   trainingAccuracy, models, predictionInput, gamma,
                   cost, kernel, timers, trainedOn, probe>>

\* A click on the predict button, enabled while a model is committed (page.tsx:574).
Predict ==
    /\ models # None
    /\ prediction' = handlePredict
    /\ UserEvent("predict")
    /\ UNCHANGED <<parsedRows, columns, labelColumn, featureColumns, status,
                   trainingAccuracy, models, predictionInput, trainingError, gamma,
                   cost, kernel, timers, trainedOn, probe>>

Next ==
    \/ LoadDataset
    \/ ChangeLabel
    \/ ToggleFeature
    \/ ChangeKernel
    \/ ChangeCost
    \/ ChangeGamma
    \/ EditInput
    \/ TrainClick
    \/ TimerFire
    \/ Predict

Spec == Init /\ [][Next]_vars

\* ------------------------------------------------------------------ direct resolver calls

\* resolveKernelOptions as a function of its three arguments, whatever the
\* caller: a call with its arguments drawn from bounded sets, and its result.
ResolveArgs ==
    [kernel : KernelKeys,
     gammaValue : {None} \cup {Some(g) : g \in -MaxGamma..MaxGamma},
     dimension : 0..MaxDim]

InitResolve ==
    /\ parsedRows = <<>>
    /\ columns = <<>>
    /\ labelColumn = ""
    /\ featureColumns = <<>>
    /\ status = "Ready for dataset"
    /\ trainingAccuracy = None
    /\ models = None
    /\ predictionInput = BlankInput(<<>>)
    /\ prediction = <<>>
    /\ trainingError = None
    /\ gamma = None
    /\ cost = 1
    /\ kernel = "RBF"
    /\ timers = <<>>
    /\ trainedOn = None
    /\ last = Step("init")
    /\ events = 0
    /\ \E args \in ResolveArgs : probe = [args |-> args, out |-> None]

ResolveCall ==
    /\ probe.out = None
    /\ probe' = [probe EXCEPT !.out = Some(resolveKernelOptions(
                     probe.args.kernel, probe.args.gammaValue,
                     probe.args.dimension))]
    /\ UNCHANGED <<parsedRows, columns, labelColumn, featureColumns, status,
                   trainingAccuracy, models, predictionInput, prediction,
                   trainingError, gamma, cost, kernel, timers, trainedOn, last,
                   events>>

SpecResolve == InitResolve /\ [][ResolveCall]_vars

\* ------------------------------------------------------------------ claims

\* The label vector and feature matrix a committed model was trained on, read
\* back from the model: every classifier holds the matrix, and row i carries
\* the label of the one classifier whose binary vector is +1 at i.
MatrixOf(ms) == ms[1].svm.X
LabelAt(ms, i) == ms[CHOOSE k \in 1..Len(ms) : ms[k].svm.Y[i] = 1].label
LabelsOf(ms) == [i \in 1..Len(MatrixOf(ms)) |-> LabelAt(ms, i)]

\* The label vector of the configuration a run captured.
ConfigLabels(config) ==
    [i \in 1..Len(config.rows) |-> config.rows[i][config.labelColumn]]

\* The position at which a label first occurs in a label vector.
FirstIndex(labels, l) ==
    CHOOSE i \in 1..Len(labels) :
        labels[i] = l /\ \A j \in 1..Len(labels) : labels[j] = l => i <= j

\* C1: whenever a model is committed, trainingAccuracy is set and is the
\* accuracy of exactly that model over its own training rows; no state shows
\* a model without its accuracy or with the accuracy of another model.
C1_ModelWithItsAccuracy ==
    models # None =>
        /\ trainingAccuracy # None
        /\ trainingAccuracy =
              Some(Accuracy(Get(models), MatrixOf(Get(models)),
                            LabelsOf(Get(models))))

\* C1 witness: a committed model whose accuracy is below 1.
C1_Witness ==
    /\ models # None
    /\ trainingAccuracy # None
    /\ Get(trainingAccuracy)[1] < Get(trainingAccuracy)[2]

\* C2: a committed model has exactly one pair per distinct label of its
\* training label vector, in the order in which the labels first occur.
C2_PairsInFirstSeenOrder ==
    models # None =>
        LET ms == Get(models)
            labels == ConfigLabels(Get(trainedOn))
        IN  /\ Len(ms) = Cardinality({labels[i] : i \in 1..Len(labels)})
            /\ {ms[k].label : k \in 1..Len(ms)} = {labels[i] : i \in 1..Len(labels)}
            /\ \A k, m \in 1..Len(ms) :
                  k < m => FirstIndex(labels, ms[k].label)
                               < FirstIndex(labels, ms[m].label)

\* C2 witness: a model over the label vector Q, P, Q, whose first-seen order
\* differs from its last-seen order.
C2_Witness ==
    /\ models # None
    /\ ConfigLabels(Get(trainedOn)) = <<"Q", "P", "Q">>
    /\ Get(models)[1].label = "Q"
    /\ Get(models)[2].label = "P"

\* The state right after a predict click that got as far as the scan: a
\* model is committed and every prediction input parses to a finite number.
PredictVector ==
    [j \in 1..Len(featureColumns) |->
        parseFeatureValue(predictionInput[featureColumns[j]])]

PredictScanned ==
    /\ last.op = "predict"
    /\ models # None
    /\ Len(featureColumns) > 0
    /\ \A j \in 1..Len(featureColumns) :
          /\ featureColumns[j] \in DOMAIN predictionInput
          /\ PredictVector[j].fin

\* The score the decision rule is specified to use: the margin when it is
\* finite, the decide code otherwise.
RuleScore(svm, vector) ==
    LET margin == marginOne(svm, vector)
    IN  IF margin.fin THEN margin.v ELSE predictOne(svm, vector)

\* The positions of the classifiers whose score is the greatest.
TopScorers(ms, vector) ==
    { k \in 1..Len(ms) :
         \A m \in 1..Len(ms) :
            RuleScore(ms[k].svm, vector) >= RuleScore(ms[m].svm, vector) }

Least(S) == CHOOSE k \in S : \A m \in S : k <= m

\* C3: when two or more classifiers share the greatest score for the query
\* vector, predict returns the label of the earliest of them in model order.
C3_TieGoesToEarliest ==
    (PredictScanned /\ Cardinality(TopScorers(Get(models), PredictVector)) >= 2) =>
        prediction =
            Txt(Get(models)[Least(TopScorers(Get(models), PredictVector))].label)

\* C3 witness: a predict in which the second and third classifier tie for the
\* greatest score and the first scores less.
C3_Witness ==
    /\ PredictScanned
    /\ TopScorers(Get(models), PredictVector) = {2, 3}
    /\ prediction = Txt(Get(models)[2].label)

\* C4: the label predict returns belongs to a classifier whose score (margin
\* when finite, decide code otherwise, compared as they are) is the maximum
\* over all classifiers of the model.
C4_WinnerHasMaximalScore ==
    /\ PredictScanned =>
          \E k \in TopScorers(Get(models), PredictVector) :
              prediction = Txt(Get(models)[k].label)
    /\ models # None =>
          LET ms == Get(models)
              hits == { i \in 1..Len(MatrixOf(ms)) :
                          \E k \in TopScorers(ms, MatrixOf(ms)[i]) :
                              /\ ms[k].label = LabelAt(ms, i)
                              /\ \A m \in 1..(k - 1) :
                                    RuleScore(ms[m].svm, MatrixOf(ms)[i])
                                        < RuleScore(ms[k].svm, MatrixOf(ms)[i]) }
          IN  trainingAccuracy = Some(Ratio(Cardinality(hits), Len(MatrixOf(ms))))

\* C4 witness: a predict won by a classifier scored by its decide code +1
\* against a classifier with a finite margin, the winner not being first.
C4_Witness ==
    /\ PredictScanned
    /\ \E k \in 2..Len(Get(models)) :
          /\ prediction = Txt(Get(models)[k].label)
          /\ prediction # Txt(Get(models)[1].label)
          /\ ~marginOne(Get(models)[k].svm, PredictVector).fin
          /\ predictOne(Get(models)[k].svm, PredictVector) = 1
          /\ marginOne(Get(models)[1].svm, PredictVector).fin

\* C5: a committed model is complete: it holds, for every distinct label of
\* its training run, a trained classifier of that label against the rest;
\* also right after a timer callback in which svm.train threw part-way.
C5_ModelAbsentOrComplete ==
    models # None =>
        LET ms == Get(models)
            labels == ConfigLabels(Get(trainedOn))
        IN  \A i \in 1..Len(labels) :
               \E k \in 1..Len(ms) :
                  /\ ms[k].label = labels[i]
                  /\ ms[k].svm.kind \in SvmKinds
                  /\ ms[k].svm.Y = BinaryLabels(labels, labels[i])

\* C5 witness: svm.train threw at the second or a later label of a run, and
\* the model committed by an earlier run is still in place.
C5_Witness ==
    /\ last.op = "timer"
    /\ last.threw
    /\ Len(last.calls) >= 2
    /\ models # None

\* C6: once a train call of a run has thrown, the run has ended as failed:
\* status "Training failed", an error message set, no model committed.
C6_ThrowEndsRunAsFailed ==
    (last.op = "timer" /\ last.threw) =>
        /\ status = "Training failed"
        /\ trainingError # None
        /\ models = None

\* The validation a run must pass before any training, stated on the
\* configuration: rows, a feature column, a label column, every selected
\* cell a finite number, two distinct labels.
ConfigValid(rows, fcols, lcol) ==
    /\ Len(rows) > 0
    /\ Len(fcols) > 0
    /\ lcol # ""
    /\ \A i \in 1..Len(rows), j \in 1..Len(fcols) :
          parseFeatureValue(rows[i][fcols[j]]).fin
    /\ Cardinality({rows[i][lcol] : i \in 1..Len(rows)}) >= 2

ValidationTexts ==
    {ErrMissingConfig, ErrNoTrainingData, ErrTwoLabels, ErrNoFeature}
        \cup {ErrNonNumeric(columns[n]) : n \in 1..Len(columns)}

C8_FeatureColumnsAreTheModels ==
    models # None => featureColumns = Get(trainedOn).featureColumns

\* The extractions the interface can ask for: a loaded dataset, one of its
\* columns as the label, and a list of distinct other columns as features.
Extractions ==
    { [rows |-> NonEmptyRows(r.data), fcols |-> f, lcol |-> l] :
        r \in {q \in PapaResults : q.errors = 0 /\ NonEmptyRows(q.data) # <<>>},
        l \in {"a", "b", "y"},
        f \in {<<"a">>, <<"b">>, <<"y">>, <<"a", "b">>, <<"b", "a">>,
               <<"a", "y">>, <<"y", "a">>, <<"b", "y">>, <<"y", "b">>} }

ExtractionOk(x) ==
    /\ x.lcol \in DOMAIN x.rows[1]
    /\ \A j \in 1..Len(x.fcols) :
          x.fcols[j] \in DOMAIN x.rows[1] /\ x.fcols[j] # x.lcol

\* C9: an extraction over a dataset with a non-numeric cell in a selected
\* column fails, and its error identifies the offending column and row: no
\* other failing extraction reports the same error for a cell of another
\* column or another row.
C9_ErrorNamesColumnAndRow ==
    (last.op = "train" /\ BadCells(parsedRows, featureColumns) # {}) =>
        /\ status = "Training failed"
        /\ trainingError # None
        /\ \A x \in {e \in Extractions : ExtractionOk(e)} :
              (/\ BadCells(x.rows, x.fcols) # {}
               /\ Some(computeFeaturesAndLabels(x.rows, x.fcols, x.lcol).error)
                     = trainingError)
              => /\ x.fcols[FirstBadCell(x.rows, x.fcols)[2]]
                       = featureColumns[FirstBadCell(parsedRows, featureColumns)[2]]
                 /\ FirstBadCell(x.rows, x.fcols)[1]
                       = FirstBadCell(parsedRows, featureColumns)[1]

\* C10: for the Rbf kernel and a dimension D >= 1, a call with a supplied
\* gamma that is zero or negative returns what the call with gamma = null
\* returns.
C10_NonPositiveGammaTakesDefault ==
    (/\ probe.out # None
     /\ probe.args.kernel = "RBF"
     /\ probe.args.dimension >= 1
     /\ probe.args.gammaValue # None
     /\ Get(probe.args.gammaValue) <= 0)
    => Get(probe.out) = resolveKernelOptions("RBF", None, probe.args.dimension)

\* The sigma of a resolved Rbf configuration.
SigmaIn(options) == (CHOOSE p \in Get(options) : p[1] = "sigma")[2]

\* C11: for the Rbf kernel with no gamma, sigma is the square root of
\* max(1, D) / 2 for every dimension D, 0 included; with a supplied gamma > 0
\* it is the square root of 1 / (2 * gamma), whatever D.
C11_SigmaFromGamma ==
    (probe.out # None /\ probe.args.kernel = "RBF") =>
        LET g == probe.args.gammaValue
            d == probe.args.dimension
            sigma == SigmaIn(Get(probe.out))
        IN  /\ g = None =>
                  /\ sigma.kind = "sqrt"
                  /\ 2 * sigma.num = Max(1, d) * sigma.den
            /\ (g # None /\ Get(g) > 0) =>
                  /\ sigma.kind = "sqrt"
                  /\ 2 * Get(g) * sigma.num = sigma.den

\* C11 witness: the call with no gamma and dimension 4 has returned sqrt(2).
C11_Witness ==
    /\ probe.out # None
    /\ probe.args = [kernel |-> "RBF", gammaValue |-> None, dimension |-> 4]
    /\ SigmaIn(Get(probe.out)) = Num("sqrt", 2, 1)

\* C12: a predict click, whatever it puts into prediction, leaves the model,
\* the accuracy, the status, the training error, the dataset, the label and
\* feature columns and the hyperparameters as they were.
C12_PredictChangesOnlyPrediction ==
    [][(last'.op = "predict" /\ events' = events + 1) =>
          UNCHANGED <<models, trainingAccuracy, status, trainingError, parsedRows,
                      columns, labelColumn, featureColumns, gamma, cost, kernel>>]_vars

\* C12 witness: a predict that failed on a non-numeric input, the committed
\* model, its accuracy and the status "Model trained" still in place.
C12_Witness ==
    /\ last.op = "predict"
    /\ models # None
    /\ trainingAccuracy # None
    /\ status = "Model trained"
    /\ \E n \in 1..Len(featureColumns) :
          prediction = MsgInputNumeric(featureColumns[n])

\* C13: a committed model has at least two pairs, with pairwise distinct
\* labels, and a click over a label vector with fewer than two distinct
\* labels (the features being numeric) fails and leaves no model committed,
\* and no run waiting for its timer has fewer than two distinct labels.
C13_AtLeastTwoDistinctLabels ==
    /\ models # None =>
          /\ Len(Get(models)) >= 2
          /\ \A k, m \in 1..Len(Get(models)) :
                k # m => Get(models)[k].label # Get(models)[m].label
    /\ (/\ last.op = "train"
        /\ BadCells(parsedRows, featureColumns) = {}
        /\ Cardinality({parsedRows[i][labelColumn] : i \in 1..Len(parsedRows)}) < 2)
       => /\ status = "Training failed"
          /\ trainingError = Some(ErrTwoLabels)
          /\ models = None
    /\ \A n \in 1..Len(timers) :
          LET labels == ConfigLabels(timers[n].config)
          IN  Cardinality({labels[i] : i \in 1..Len(labels)}) >= 2

\* C13 witness: a click over the label vector P, P has failed.
C13_Witness ==
    /\ last.op = "train"
    /\ BadCells(parsedRows, featureColumns) = {}
    /\ [i \in 1..Len(parsedRows) |-> parsedRows[i][labelColumn]] = <<"P", "P">>
    /\ models = None

\* The feature matrix of a configuration, cell by cell.
ConfigMatrix(config) ==
    [i \in 1..Len(config.rows) |->
        [j \in 1..Len(config.featureColumns) |->
            parseFeatureValue(config.rows[i][config.featureColumns[j]])]]

\* C14: the svm.train calls of one run all receive the same matrix and the
\* same cost, tolerance 1e-4, max passes 10, max iterations 10000 and kernel
\* configuration; in a run that commits, every distinct label has exactly one
\* call, on the full matrix, with +1 exactly at the positions of that label.
C14_OneCallPerLabel ==
    /\ \A n \in 1..Len(last.calls) :
          /\ last.calls[n].options.tol = Num("finite", 1, 10000)
          /\ last.calls[n].options.maxPasses = 10
          /\ last.calls[n].options.maxIterations = 10000
          /\ last.calls[n].options = last.calls[1].options
          /\ last.calls[n].X = last.calls[1].X
          /\ \A i \in 1..Len(last.calls[n].Y) : last.calls[n].Y[i] \in {1, -1}
    /\ (last.op = "timer" /\ ~last.threw) =>
          LET config == Get(trainedOn)
              labels == ConfigLabels(config)
          IN  /\ Len(last.calls) = Cardinality({labels[i] : i \in 1..Len(labels)})
              /\ \A i \in 1..Len(labels) :
                    Cardinality({ n \in 1..Len(last.calls) :
                        /\ last.calls[n].X = ConfigMatrix(config)
                        /\ last.calls[n].options.C = config.cost
                        /\ last.calls[n].options.kernel = KERNEL_MAP(config.kernel)
                        /\ DOMAIN last.calls[n].Y = 1..Len(labels)
                        /\ \A m \in 1..Len(labels) :
                              last.calls[n].Y[m] = 1 <=> labels[m] = labels[i] }) = 1

\* C14 witness: a run over three distinct labels has committed after three calls.
C14_Witness ==
    /\ last.op = "timer"
    /\ ~last.threw
    /\ Len(last.calls) = 3

\* C15: the training accuracy is null or a fraction between 0 and 1 of a
\* count N >= 1, and the accuracy shown with a committed model is the number
\* of its training rows that the decision rule gives their own label, over
\* the number of training rows.
C15_AccuracyIsMatchesOverRows ==
    /\ trainingAccuracy # None =>
          /\ Get(trainingAccuracy)[2] >= 1
          /\ Get(trainingAccuracy)[1] >= 0
          /\ Get(trainingAccuracy)[1] <= Get(trainingAccuracy)[2]
    /\ models # None =>
          LET config == Get(trainedOn)
              N == Len(config.rows)
              matches == { i \in 1..N :
                             PredictBest(Get(models), ConfigMatrix(config)[i])
                                 = ConfigLabels(config)[i] }
          IN  /\ N >= 1
              /\ trainingAccuracy # None
              /\ Get(trainingAccuracy)[1] * N
                    = Cardinality(matches) * Get(trainingAccuracy)[2]

\* C15 witness: a committed model that gets one of its three training rows right.
C15_Witness ==
    /\ models # None
    /\ trainingAccuracy = Some(<<1, 3>>)

\* C16: a committed model was computed from the dataset, label column,
\* kernel, gamma and cost that are current, also when a load or a
\* configuration change falls between the click and the commit.
C16_CommitFromCurrentConfiguration ==
    models # None =>
        /\ Get(trainedOn).rows = parsedRows
        /\ Get(trainedOn).labelColumn = labelColumn
        /\ Get(trainedOn).kernel = kernel
        /\ Get(trainedOn).gamma = gamma
        /\ Get(trainedOn).cost = cost

\* C17: while no model is committed the training accuracy is null.
C17_NoModelNoAccuracy ==
    models = None => trainingAccuracy = None

\* C18: a step of a handler that changes the dataset, the label column, the
\* feature selection, the kernel, the cost or gamma leaves, in that same
\* step, no model, no training accuracy and an empty prediction.
C18_ConfigurationChangeInvalidates ==
    [][(\/ <<parsedRows, labelColumn, featureColumns, kernel, cost, gamma>>'
              # <<parsedRows, labelColumn, featureColumns, kernel, cost, gamma>>
        \/ /\ events' = events + 1
           /\ last'.op \in {"label", "toggle", "kernel", "cost", "gamma"}
        \/ /\ events' = events + 1
           /\ last'.op = "load"
           /\ trainingError' = None)
       => /\ models' = None
          /\ trainingAccuracy' = None
          /\ prediction' = <<>>]_vars

\* C18 witness: the cost was changed under a trained model, which is gone.
C18_Witness ==
    /\ last.op = "cost"
    /\ status = "Model trained"
    /\ models = None
    /\ trainingAccuracy = None
    /\ prediction = <<>>

\* C19: once a dataset is loaded, the label column is a column of it and not
\* a feature column, the feature columns are distinct columns of it, and the
\* prediction input has exactly the feature columns as keys.
C19_SelectionWellFormed ==
    columns # <<>> =>
        LET cols == {columns[n] : n \in 1..Len(columns)}
            fcols == {featureColumns[n] : n \in 1..Len(featureColumns)}
        IN  /\ labelColumn \in cols
            /\ labelColumn \notin fcols
            /\ fcols \subseteq cols
            /\ Cardinality(fcols) = Len(featureColumns)
            /\ DOMAIN predictionInput = fcols

\* C19 witness: column a was deselected and selected again, after column b.
C19_Witness ==
    /\ last.op = "toggle"
    /\ labelColumn = "y"
    /\ featureColumns = <<"b", "a">>
    /\ DOMAIN predictionInput = {"a", "b"}

\* C20: a Train click over a selected feature cell that is the empty string
\* fails with the non-numeric error of a feature column, and a Predict click
\* with a model and an empty input value reports a non-numeric input.
C20_EmptyStringIsNonNumeric ==
    /\ (/\ last.op = "train"
        /\ \E i \in 1..Len(parsedRows), n \in 1..Len(featureColumns) :
              parsedRows[i][featureColumns[n]] = "")
       => /\ status = "Training failed"
          /\ timers = <<>>
          /\ \E n \in 1..Len(featureColumns) :
                trainingError = Some(ErrNonNumeric(featureColumns[n]))
    /\ (/\ last.op = "predict"
        /\ models # None
        /\ \E n \in 1..Len(featureColumns) : predictionInput[featureColumns[n]] = "")
       => \E n \in 1..Len(featureColumns) :
             prediction = MsgInputNumeric(featureColumns[n])

\* C21: the accuracy loop and the predict handler are the same decision rule:
\* on the committed model both scans give every training row the same label,
\* and the label a predict click shows is the one the accuracy loop gives
\* that input vector.
C21_AccuracyLoopIsPredictRule ==
    models # None =>
        /\ \A i \in 1..Len(ConfigMatrix(Get(trainedOn))) :
              TrainBestFrom(Get(models), ConfigMatrix(Get(trainedOn))[i], 1, "", None)
                 = PredictBest(Get(models), ConfigMatrix(Get(trainedOn))[i])
        /\ PredictScanned =>
              prediction = Txt(TrainBestFrom(Get(models), PredictVector, 1, "", None))

\* C21 witness: a predict click on a training row of the committed model,
\* two of whose classifiers are tied at margin 0.
C21_Witness ==
    /\ PredictScanned
    /\ \E i \in 1..Len(ConfigMatrix(Get(trainedOn))) :
          ConfigMatrix(Get(trainedOn))[i] = PredictVector
    /\ \E k, m \in 1..Len(Get(models)) :
          /\ k # m
          /\ Get(models)[k].svm.kind = "flat"
          /\ Get(models)[m].svm.kind = "flat"

\* C22: a dataset load that fails changes the error message and nothing else
\* of the page's state.
C22_FailedLoadChangesOnlyError ==
    [][(/\ events' = events + 1
        /\ last'.op = "load"
        /\ trainingError' # None)
       => /\ trainingError' \in {Some(ErrCsvParse), Some(ErrNoRows)}
          /\ UNCHANGED <<parsedRows, columns, labelColumn, featureColumns,
                         predictionInput, models, trainingAccuracy, prediction,
                         status, gamma, cost, kernel>>]_vars

\* C22 witness: a load failed under a trained model, which is still in place.
C22_Witness ==
    /\ last.op = "load"
    /\ trainingError = Some(ErrNoRows)
    /\ models # None
    /\ trainingAccuracy # None
    /\ status = "Model trained"

\* C23: the stored cost is a number > 0 and the stored gamma is null or a
\* number > 0, and so are the cost and gamma of every run waiting for its
\* timer and the cost of every recorded svm.train call.
C23_CostAndGammaPositive ==
    /\ cost > 0
    /\ gamma = None \/ Get(gamma) > 0
    /\ \A n \in 1..Len(timers) :
          /\ timers[n].svmOptions.C > 0
          /\ timers[n].config.gamma = None \/ Get(timers[n].config.gamma) > 0
    /\ \A n \in 1..Len(last.calls) : last.calls[n].options.C > 0

\* C23 witness: a run was started after a cost and a gamma were entered.
C23_Witness ==
    /\ last.op = "train"
    /\ cost = 2
    /\ gamma = Some(2)
    /\ timers # <<>>
    /\ timers[Len(timers)].svmOptions.C = 2

====
